---- MODULE Spec2Model ----
(***************************************************************************)
(* Model of the ggpt Hong Kong stock dashboard (src/utils.py, src/app.py). *)
(*                                                                         *)
(* Strings are sequences of one-character strings.  Each component of      *)
(* utils.py has its own variables and its own specification:               *)
(*   SpecTicker      format_hk_ticker                                      *)
(*   SpecFetch       get_stock_data                                        *)
(*   SpecIndicators  calculate_technical_indicators                        *)
(*   SpecNames       get_stock_names_sina                                  *)
(*   SpecNews        get_news                                              *)
(* and so has each part of the dashboard script app.py:                    *)
(*   SpecNarrative   the rule-based narrative of the single-stock tab      *)
(*   SpecStore       load_tickers_from_json / save_tickers_to_json         *)
(*   SpecSession     the ticker text of the session and add_ticker         *)
(*   SpecAnalysis    the single-stock tab from the fetches to the rating   *)
(* Spec is their union: the component a behaviour exercises is chosen by   *)
(* the initial state.                                                      *)
(***************************************************************************)
EXTENDS Integers, Sequences, FiniteSets, TLC

VARIABLES
    component,    \* which part of the program this behaviour exercises
    ticker,       \* format_hk_ticker: the argument
    formatted,    \* format_hk_ticker(ticker)
    reformatted,  \* format_hk_ticker(format_hk_ticker(ticker))
    pcTicker,     \* "start" | "once" | "twice"
    fetchArgs,    \* get_stock_data: [ticker, period, interval]
    provider,     \* what yfinance did during the call
    fetchResult,  \* what get_stock_data handed to its caller
    pcFetch,      \* "call" | "done"
    frame,        \* calculate_technical_indicators: the caller's DataFrame object
    ohlcv,        \* the contents of that object before the call
    returned,     \* the value calculate_technical_indicators returned
    pcInd,        \* "call" | "done"
    tickers,      \* get_stock_names_sina: the argument, a list of raw codes
    sina_codes,   \* the lookup keys built from the codes that parse
    code_map,     \* lookup key -> raw code
    results,      \* raw code -> resolved name
    chunkStart,   \* the loop variable i of the chunk loop
    requests,     \* the HTTP requests issued so far, with what came back
    namesResult,  \* what get_stock_names_sina handed to its caller
    pcNames,      \* "call" | "chunks" | "done"
    newsTicker,   \* get_news: the argument
    raw_news,     \* what stock.news did
    newsResult,   \* what get_news handed to its caller
    pcNews,       \* "call" | "done"
    snapshot,     \* narrative: the values read from the last rows of the frame
    findings,     \* the findings and the rating computed from the snapshot
    pcNarr,       \* "call" | "done"
    file,         \* tickers.json: Missing or the text of the file
    saveArg,      \* the list handed to save_tickers_to_json
    saveResult,   \* what save_tickers_to_json returned
    loadResult,   \* what load_tickers_from_json returned
    pcStore,      \* "start" | "saved" | "loaded"
    ticker_input, \* st.session_state.ticker_input, the ticker text
    new_ticker,   \* st.session_state.new_ticker
    tickersFile,  \* tickers.json as the session leaves it
    clicked,      \* the code of the add button clicked last
    pcSession,    \* "new" | "rerun" | "shown"
    primary,      \* single-stock tab: the period/interval fetch
    realtime,     \* the 1d/1m fetch
    info,         \* what get_stock_info returned
    analysis,     \* how the tab ended, with what it displayed
    pcAnalysis    \* "call" | "done"

tickerVars == <<ticker, formatted, reformatted, pcTicker>>

fetchVars == <<fetchArgs, provider, fetchResult, pcFetch>>

indVars == <<frame, ohlcv, returned, pcInd>>

namesVars ==
    <<tickers, sina_codes, code_map, results, chunkStart, requests, namesResult, pcNames>>

newsVars == <<newsTicker, raw_news, newsResult, pcNews>>

narrVars == <<snapshot, findings, pcNarr>>

storeVars == <<file, saveArg, saveResult, loadResult, pcStore>>

sessionVars == <<ticker_input, new_ticker, clicked, tickersFile, pcSession>>

analysisVars == <<primary, realtime, info, analysis, pcAnalysis>>

vars ==
    <<component, tickerVars, fetchVars, indVars, namesVars, newsVars,
      narrVars, storeVars, sessionVars, analysisVars>>

(***************************************************************************)
(* Bounds                                                                  *)
(***************************************************************************)
MaxLen == 5

\* Longest ticker handed to get_stock_data.
MaxFetchLen == 2

\* Most rows in a series the provider returns to get_stock_data.
MaxFetchRows == 2

\* Most rows in a series handed to calculate_technical_indicators.
MaxBars == 51

\* Most codes in a list handed to get_stock_names_sina.
MaxTickers == 24

\* Most items in the list stock.news returns.
MaxNews == 3

\* Longest ticker string handed to save_tickers_to_json.
MaxStoreLen == 1

\* Most strings in a list handed to save_tickers_to_json.
MaxStoreList == 2

\* Longest text the user types into the ticker text area.
MaxTextLen == 2

\* Longest code of a search result.
MaxCodeLen == 1

\* Longest ticker text add_ticker is followed to.
MaxInputLen == 5

(***************************************************************************)
(* Python str and int primitives used by utils.py                          *)
(***************************************************************************)
\* The characters input strings are drawn from: two digits, the characters
\* of the suffix (H and K double as letters), a blank and a sign.
Alphabet == {"0", "7", ".", "H", "K", " ", "-"}

HK == <<".", "H", "K">>

DigitChars == <<"0", "1", "2", "3", "4", "5", "6", "7", "8", "9">>

Strings(n) == UNION {[1..k -> Alphabet] : k \in 0..n}

IsDigit(c) == \E d \in 1..10 : DigitChars[d] = c

DigitVal(c) == (CHOOSE d \in 1..10 : DigitChars[d] = c) - 1

IsSpace(c) == c = " "

StartsWith(s, p) == Len(s) >= Len(p) /\ SubSeq(s, 1, Len(p)) = p

\* str.endswith
EndsWith(s, p) == Len(s) >= Len(p) /\ SubSeq(s, Len(s) - Len(p) + 1, Len(s)) = p

\* str.replace(old, ''): every non-overlapping occurrence of old, found left
\* to right in one pass, is removed.
RECURSIVE Remove(_, _)
Remove(s, old) ==
    IF s = <<>> THEN <<>>
    ELSE IF StartsWith(s, old) THEN Remove(SubSeq(s, Len(old) + 1, Len(s)), old)
    ELSE <<Head(s)>> \o Remove(Tail(s), old)

RECURSIVE LStrip(_)
LStrip(s) == IF s # <<>> /\ IsSpace(Head(s)) THEN LStrip(Tail(s)) ELSE s

RECURSIVE RStrip(_)
RStrip(s) ==
    IF s # <<>> /\ IsSpace(s[Len(s)]) THEN RStrip(SubSeq(s, 1, Len(s) - 1)) ELSE s

\* str.strip()
Strip(s) == LStrip(RStrip(s))

IsSign(c) == c \in {"-", "+"}

\* The digits part of an integer literal: digits, with single underscores
\* allowed between digits.
IsDigitRun(s) ==
    /\ s # <<>>
    /\ \A i \in 1..Len(s) : IsDigit(s[i]) \/ s[i] = "_"
    /\ IsDigit(s[1]) /\ IsDigit(s[Len(s)])
    /\ \A i \in 1..(Len(s) - 1) : ~(s[i] = "_" /\ s[i + 1] = "_")

Unsigned(s) == IF s # <<>> /\ IsSign(Head(s)) THEN Tail(s) ELSE s

\* int(s) does not raise ValueError: surrounding whitespace, an optional
\* sign, then the digits.
ParsesInt(s) == IsDigitRun(Unsigned(Strip(s)))

RECURSIVE DigitRunVal(_)
DigitRunVal(s) ==
    IF s = <<>> THEN 0
    ELSE IF s[Len(s)] = "_" THEN DigitRunVal(SubSeq(s, 1, Len(s) - 1))
    ELSE 10 * DigitRunVal(SubSeq(s, 1, Len(s) - 1)) + DigitVal(s[Len(s)])

\* int(s), for s with ParsesInt(s)
IntOf(s) ==
    LET t == Strip(s)
    IN  IF t[1] = "-" THEN 0 - DigitRunVal(Tail(t)) ELSE DigitRunVal(Unsigned(t))

\* str(n) for n >= 0
RECURSIVE Decimal(_)
Decimal(n) ==
    IF n < 10 THEN <<DigitChars[n + 1]>>
    ELSE Decimal(n \div 10) \o <<DigitChars[(n % 10) + 1]>>

RECURSIVE ZeroFill(_, _)
ZeroFill(s, width) == IF Len(s) >= width THEN s ELSE ZeroFill(<<"0">> \o s, width)

\* f"{n:0{width}d}": the sign counts toward the field width.
FormatZeroPadded(n, width) ==
    IF n < 0 THEN <<"-">> \o ZeroFill(Decimal(0 - n), width - 1)
    ELSE ZeroFill(Decimal(n), width)

(***************************************************************************)
(* format_hk_ticker                                                        *)
(***************************************************************************)
\* Mutant: the suffix is appended without testing whether it is there.
Mutant_format_hk_ticker_always_append(t) ==
    LET base_code == Strip(Remove(t, HK))
    IN  IF ParsesInt(base_code)
        THEN FormatZeroPadded(IntOf(base_code), 4) \o HK
        ELSE t \o HK

\* Mutant: the suffix is appended to the cleaned code, not to the input.
Mutant_format_hk_ticker_appends_to_base(t) ==
    LET base_code == Strip(Remove(t, HK))
    IN  IF ParsesInt(base_code)
        THEN FormatZeroPadded(IntOf(base_code), 4) \o HK
        ELSE base_code \o HK

\* Mutant: the code is padded to five digits, as the Sina lookup key is.
Mutant_format_hk_ticker_width5(t) ==
    LET base_code == Strip(Remove(t, HK))
    IN  IF ParsesInt(base_code)
        THEN FormatZeroPadded(IntOf(base_code), 5) \o HK
        ELSE IF ~EndsWith(t, HK) THEN t \o HK ELSE t

format_hk_ticker(t) ==
    LET base_code == Strip(Remove(t, HK))
    IN  IF ParsesInt(base_code)
        THEN FormatZeroPadded(IntOf(base_code), 4) \o HK
        ELSE IF ~EndsWith(t, HK) THEN t \o HK ELSE t

InitTicker ==
    /\ component = "format_hk_ticker"
    /\ ticker \in Strings(MaxLen)
    /\ formatted = <<>>
    /\ reformatted = <<>>
    /\ pcTicker = "start"

\* The caller canonicalises a raw ticker.
Normalize ==
    /\ component = "format_hk_ticker"
    /\ pcTicker = "start"
    /\ formatted' = format_hk_ticker(ticker)
    /\ pcTicker' = "once"
    /\ UNCHANGED <<component, ticker, reformatted>>

\* The caller canonicalises a ticker that is already the result of
\* format_hk_ticker (get_stock_data applied to a stored canonical symbol).
Renormalize ==
    /\ component = "format_hk_ticker"
    /\ pcTicker = "once"
    /\ reformatted' = format_hk_ticker(formatted)
    /\ pcTicker' = "twice"
    /\ UNCHANGED <<component, ticker, formatted>>

(***************************************************************************)
(* Claims about format_hk_ticker                                           *)
(***************************************************************************)
\* The remainder of t after stripping one trailing ".HK" suffix.
StripSuffix(t) == IF EndsWith(t, HK) THEN SubSeq(t, 1, Len(t) - Len(HK)) ELSE t

Abs(n) == IF n < 0 THEN 0 - n ELSE n

\* C1: format_hk_ticker(format_hk_ticker(x)) = format_hk_ticker(x) for every
\* input string x.
C1_Idempotent == pcTicker = "twice" => reformatted = formatted

\* C1 witness: a non-numeric input with surrounding whitespace gets the
\* suffix appended and is then normalised a second time.
C1_Witness ==
    /\ pcTicker = "twice"
    /\ ticker = <<" ", "H", "K", " ">>
    /\ formatted = ticker \o HK

\* C2 as stated: whenever the remainder after stripping a trailing ".HK"
\* parses as an integer n, the result is n written with (at least) four
\* digits, zero-padded, followed by ".HK".
C2_Original ==
    (pcTicker # "start" /\ ParsesInt(StripSuffix(ticker))) =>
        LET n == IntOf(StripSuffix(ticker))
        IN  formatted =
                (IF n < 0 THEN <<"-">> ELSE <<>>) \o ZeroFill(Decimal(Abs(n)), 4) \o HK

\* C2 as amended: for n >= 0 the result is n zero-padded to four digits plus
\* ".HK"; for n < 0 the minus sign counts toward the width of four, so the
\* result is "-", |n| zero-padded to three digits, plus ".HK".
C2_PaddedToWidth4 ==
    (pcTicker # "start" /\ ParsesInt(StripSuffix(ticker))) =>
        LET n == IntOf(StripSuffix(ticker))
        IN  formatted =
                (IF n < 0 THEN <<"-">> \o ZeroFill(Decimal(Abs(n)), 3)
                 ELSE ZeroFill(Decimal(n), 4)) \o HK

\* C2 witness: "-7" has been normalised to "-007.HK".
C2_Witness ==
    /\ pcTicker = "once"
    /\ ticker = <<"-", "7">>
    /\ formatted = <<"-", "0", "0", "7", ".", "H", "K">>

None == [tag |-> "None"]

\* A missing value (NaN) is the empty cell, a float v is the cell <<v>>.
NaN == <<>>

Cell(v) == <<v>>

\* Derived columns hold fixed-point floats: the value times PriceScale.
PriceScale == 100

OHLCVColumns == <<"Open", "High", "Low", "Close", "Volume">>

DerivedColumns ==
    <<"SMA_20", "SMA_50", "BB_High", "BB_Low", "BB_Mid", "RSI", "MACD",
      "MACD_Signal", "MACD_Diff">>

Range(f) == {f[i] : i \in DOMAIN f}

\* The timestamp of the i-th bar: strictly increasing, no duplicates.
Timestamp(i) == 20260000 + i

ClosePrice(shape, base, i) ==
    CASE shape = "flat" -> base
      [] shape = "up" -> base + i
      [] shape = "down" -> base + 100 - i
      [] shape = "zigzag" -> base + 3 * (i % 4)

Shapes == {"flat", "up", "down", "zigzag"}

Bases == {100, 250}

\* An OHLCV DataFrame of n bars as the provider's history() returns it.
OHLCV(n, shape, base) ==
    [tag |-> "DataFrame",
     index |-> [i \in 1..n |-> Timestamp(i)],
     columns |-> OHLCVColumns,
     data |-> [c \in Range(OHLCVColumns) |->
                 [i \in 1..n |->
                    CASE c = "Open" -> ClosePrice(shape, base, i - 1)
                      [] c = "High" -> ClosePrice(shape, base, i) + 4
                      [] c = "Low" -> ClosePrice(shape, base, i) - 4
                      [] c = "Close" -> ClosePrice(shape, base, i)
                      [] c = "Volume" -> 1000 * i]]]

\* DataFrame.empty
Empty(df) == Len(df.index) = 0 \/ Len(df.columns) = 0

\* A Series: values labelled by an index.
Series(index, values) == [index |-> index, values |-> values]

\* df[name] = series: the values are aligned on df's index (a label the
\* series lacks gives NaN); a new name is appended to the columns, an
\* existing one is overwritten in place.
SetColumn(df, name, series) ==
    LET aligned ==
            [i \in 1..Len(df.index) |->
                IF \E j \in 1..Len(series.index) : series.index[j] = df.index[i]
                THEN series.values[CHOOSE j \in 1..Len(series.index) :
                                        series.index[j] = df.index[i]]
                ELSE NaN]
    IN  [df EXCEPT
            !.columns = IF name \in Range(@) THEN @ ELSE Append(@, name),
            !.data = [c \in (DOMAIN @) \cup {name} |->
                        IF c = name THEN aligned ELSE @[c]]]

\* df[name]
Column(df, name) == Series(df.index, df.data[name])

(***************************************************************************)
(* get_stock_data                                                          *)
(***************************************************************************)
Periods == {"1d", "1y", "max"}

Intervals == {"1m", "1d", "1mo"}

\* What stock.history(period, interval) can do: raise, or return a series of
\* zero or more bars.  (Constructing yf.Ticker(symbol), which sits before the
\* try block, only records the symbol: it sends no request.)
HistoryOutcomes ==
    {[raises |-> TRUE]} \cup
    {[raises |-> FALSE, df |-> OHLCV(n, "up", 100)] : n \in 0..MaxFetchRows}

\* The caller's view of a call: a returned value, or an exception that
\* propagated out of the function.
Returned(v) == [kind |-> "returned", value |-> v]

Raised(where) == [kind |-> "raised", at |-> where]

\* Mutant: the df.empty test is missing, the empty series is handed on.
Mutant_get_stock_data_returns_empty(t, period, interval, history) ==
    IF history.raises THEN Returned(None)
    ELSE Returned(history.df)

\* get_stock_data(t, period, interval) against a provider whose history()
\* does `history`: the except clause turns an exception into None.
get_stock_data(t, period, interval, history) ==
    IF history.raises THEN Returned(None)
    ELSE IF Empty(history.df) THEN Returned(None)
    ELSE Returned(history.df)

IdleFetch ==
    /\ fetchArgs = None
    /\ provider = None
    /\ fetchResult = None
    /\ pcFetch = "idle"

InitFetch ==
    /\ component = "get_stock_data"
    /\ fetchArgs \in [ticker : Strings(MaxFetchLen), period : Periods, interval : Intervals]
    /\ provider = None
    /\ fetchResult = None
    /\ pcFetch = "call"

\* One call of get_stock_data; the provider's behaviour is chosen here.
GetStockData ==
    /\ component = "get_stock_data"
    /\ pcFetch = "call"
    /\ \E history \in HistoryOutcomes :
          /\ provider' = [symbol |-> format_hk_ticker(fetchArgs.ticker),
                          period |-> fetchArgs.period,
                          interval |-> fetchArgs.interval,
                          history |-> history]
          /\ fetchResult' = get_stock_data(fetchArgs.ticker, fetchArgs.period,
                                            fetchArgs.interval, history)
    /\ pcFetch' = "done"
    /\ UNCHANGED <<component, fetchArgs>>

(***************************************************************************)
(* Claims about get_stock_data                                             *)
(***************************************************************************)
ProviderFailed == provider.history.raises \/ Empty(provider.history.df)

SMA20Window == 20

SMA50Window == 50

BBWindow == 20

BBWindowDev == 2

RSIWindow == 14

\* ta.trend.MACD defaults: window_fast, window_slow, window_sign
MACDFast == 12

MACDSlow == 26

MACDSign == 9

RECURSIVE SumRange(_, _, _)
SumRange(x, lo, hi) == IF lo > hi THEN 0 ELSE x[hi] + SumRange(x, lo, hi - 1)

RECURSIVE ISqrtBetween(_, _, _)
ISqrtBetween(n, lo, hi) ==
    IF hi - lo <= 1 THEN lo
    ELSE LET mid == (lo + hi) \div 2
         IN  IF mid * mid <= n THEN ISqrtBetween(n, mid, hi)
             ELSE ISqrtBetween(n, lo, mid)

\* floor(sqrt(n)) for 0 <= n < 2^31 (46341 is the least integer whose square
\* exceeds that range)
ISqrt(n) == ISqrtBetween(n, 0, IF n < 46341 THEN n + 1 ELSE 46341)

\* series.rolling(window, min_periods=window).mean()
RollingMean(x, window) ==
    [i \in 1..Len(x) |->
        IF i < window THEN NaN
        ELSE Cell((SumRange(x, i - window + 1, i) * PriceScale) \div window)]

\* series.rolling(window, min_periods=window).std(ddof=0)
RollingStd(x, window) ==
    [i \in 1..Len(x) |->
        IF i < window THEN NaN
        ELSE LET sum == SumRange(x, i - window + 1, i)
                 squares == SumRange([k \in 1..Len(x) |-> x[k] * x[k]], i - window + 1, i)
             IN  Cell(ISqrt(((window * squares - sum * sum) * PriceScale * PriceScale)
                            \div (window * window)))]

\* series.ewm(alpha=num/den, adjust=False).mean() before min_periods is
\* applied, on fixed-point input: y[1] = x[1], y[i] = (1-alpha) y[i-1] + alpha x[i]
RECURSIVE Ewm(_, _, _)
Ewm(x, num, den) ==
    IF Len(x) <= 1 THEN x
    ELSE LET prev == Ewm(SubSeq(x, 1, Len(x) - 1), num, den)
         IN  Append(prev, ((den - num) * prev[Len(prev)] + num * x[Len(x)]) \div den)

Scaled(x) == [i \in 1..Len(x) |-> x[i] * PriceScale]

\* ta.trend.sma_indicator(close, window)
sma_indicator(close, window) == Series(close.index, RollingMean(close.values, window))

\* ta.volatility.BollingerBands(close, window, window_dev): mavg, hband, lband
bollinger_mavg(close, window) == Series(close.index, RollingMean(close.values, window))

bollinger_hband(close, window, dev) ==
    LET mavg == RollingMean(close.values, window)
        mstd == RollingStd(close.values, window)
    IN  Series(close.index,
               [i \in 1..Len(close.values) |->
                   IF mavg[i] = NaN THEN NaN ELSE Cell(mavg[i][1] + dev * mstd[i][1])])

bollinger_lband(close, window, dev) ==
    LET mavg == RollingMean(close.values, window)
        mstd == RollingStd(close.values, window)
    IN  Series(close.index,
               [i \in 1..Len(close.values) |->
                   IF mavg[i] = NaN THEN NaN ELSE Cell(mavg[i][1] - dev * mstd[i][1])])

\* ta.momentum.rsi(close, window): Wilder averages of the up and down moves;
\* 100 where the average down move is zero.
rsi(close, window) ==
    LET x == close.values
        up == [i \in 1..Len(x) |->
                  IF i > 1 /\ x[i] > x[i - 1] THEN (x[i] - x[i - 1]) * PriceScale ELSE 0]
        dn == [i \in 1..Len(x) |->
                  IF i > 1 /\ x[i] < x[i - 1] THEN (x[i - 1] - x[i]) * PriceScale ELSE 0]
        emaup == Ewm(up, 1, window)
        emadn == Ewm(dn, 1, window)
    IN  Series(close.index,
               [i \in 1..Len(x) |->
                   IF i < window THEN NaN
                   ELSE IF emadn[i] = 0 THEN Cell(100 * PriceScale)
                   ELSE Cell((100 * PriceScale * emaup[i]) \div (emaup[i] + emadn[i]))])

\* close.ewm(span=periods, min_periods=periods, adjust=False).mean() inside MACD
EmaRaw(x, periods) == Ewm(x, 2, periods + 1)

macd_line(close) ==
    LET fast == EmaRaw(Scaled(close.values), MACDFast)
        slow == EmaRaw(Scaled(close.values), MACDSlow)
    IN  Series(close.index,
               [i \in 1..Len(close.values) |->
                   IF i < MACDSlow THEN NaN ELSE Cell(fast[i] - slow[i])])

\* The signal line: the EMA of the MACD line starts at its first defined
\* value and is defined once MACDSign values have been seen.
macd_signal(close) ==
    LET n == Len(close.values)
        macd == macd_line(close).values
        defined == IF n < MACDSlow THEN <<>>
                   ELSE [k \in 1..(n - MACDSlow + 1) |-> macd[k + MACDSlow - 1][1]]
        ema == EmaRaw(defined, MACDSign)
    IN  Series(close.index,
               [i \in 1..n |->
                   IF i < MACDSlow + MACDSign - 1 THEN NaN
                   ELSE Cell(ema[i - MACDSlow + 1])])

macd_diff(close) ==
    LET macd == macd_line(close).values
        signal == macd_signal(close).values
    IN  Series(close.index,
               [i \in 1..Len(close.values) |->
                   IF macd[i] = NaN \/ signal[i] = NaN THEN NaN
                   ELSE Cell(macd[i][1] - signal[i][1])])

(***************************************************************************)
(* calculate_technical_indicators                                          *)
(***************************************************************************)
\* df.dropna(): the rows with a missing value in any column are removed (the
\* provider's OHLCV columns hold plain numbers, never a missing value).
RECURSIVE KeepRows(_, _)
KeepRows(x, keep) ==
    IF x = <<>> THEN <<>>
    ELSE KeepRows(SubSeq(x, 1, Len(x) - 1), keep) \o
         (IF Len(x) \in keep THEN <<x[Len(x)]>> ELSE <<>>)

DropNa(df) ==
    LET keep == {i \in 1..Len(df.index) :
                    \A c \in (DOMAIN df.data) \ Range(OHLCVColumns) : df.data[c][i] # NaN}
    IN  [df EXCEPT !.index = KeepRows(@, keep),
                   !.data = [c \in DOMAIN @ |-> KeepRows(@[c], keep)]]

\* The nine assignments, in the order of the source.
WithIndicators(df) ==
    LET d1 == SetColumn(df, "SMA_20", sma_indicator(Column(df, "Close"), SMA20Window))
        d2 == SetColumn(d1, "SMA_50", sma_indicator(Column(d1, "Close"), SMA50Window))
        d3 == SetColumn(d2, "BB_High",
                        bollinger_hband(Column(d2, "Close"), BBWindow, BBWindowDev))
        d4 == SetColumn(d3, "BB_Low",
                        bollinger_lband(Column(d2, "Close"), BBWindow, BBWindowDev))
        d5 == SetColumn(d4, "BB_Mid", bollinger_mavg(Column(d2, "Close"), BBWindow))
        d6 == SetColumn(d5, "RSI", rsi(Column(d5, "Close"), RSIWindow))
        d7 == SetColumn(d6, "MACD", macd_line(Column(d6, "Close")))
        d8 == SetColumn(d7, "MACD_Signal", macd_signal(Column(d6, "Close")))
    IN  SetColumn(d8, "MACD_Diff", macd_diff(Column(d6, "Close")))

\* Mutant: the guard for an empty frame is missing.
Mutant_calculate_technical_indicators_no_guard(df) ==
    IF df = None THEN df
    ELSE WithIndicators(df)

\* Mutant: the rows with undefined indicators are dropped before returning.
Mutant_calculate_technical_indicators_dropna(df) ==
    IF df = None THEN df
    ELSE IF Empty(df) THEN df
    ELSE DropNa(WithIndicators(df))

\* calculate_technical_indicators(df): None and an empty frame are handed
\* back as they are; otherwise the columns are added to df itself.
calculate_technical_indicators(df) ==
    IF df = None THEN df
    ELSE IF Empty(df) THEN df
    ELSE WithIndicators(df)

IdleInd ==
    /\ frame = None
    /\ ohlcv = None
    /\ returned = None
    /\ pcInd = "idle"

InitInd ==
    /\ component = "calculate_technical_indicators"
    /\ frame \in {None} \cup
                 {OHLCV(n, shape, base) : n \in 0..MaxBars, shape \in Shapes, base \in Bases}
    /\ ohlcv = frame
    /\ returned = None
    /\ pcInd = "call"

\* One call: df is augmented in place and returned, so the caller's object
\* and the returned value are the same frame.
CalculateTechnicalIndicators ==
    /\ component = "calculate_technical_indicators"
    /\ pcInd = "call"
    /\ frame' = calculate_technical_indicators(frame)
    /\ returned' = frame'
    /\ pcInd' = "done"
    /\ UNCHANGED <<component, ohlcv>>

(***************************************************************************)
(* Claims about calculate_technical_indicators                             *)
(***************************************************************************)
IsFrame(v) == v # None

AllUndefined(df, c) == \A i \in 1..Len(df.data[c]) : df.data[c][i] = NaN

\* C5 as stated: for a zero-row OHLCV series the call returns, without
\* raising, a series in which all nine derived columns are present and
\* entirely undefined.
C5_Original ==
    (pcInd = "done" /\ IsFrame(ohlcv) /\ Len(ohlcv.index) = 0) =>
        /\ IsFrame(returned)
        /\ \A c \in Range(DerivedColumns) :
              c \in Range(returned.columns) /\ AllUndefined(returned, c)

\* C5 as amended: for a zero-row OHLCV series the call returns, without
\* raising, that same series unchanged; no derived column is added.
C5_EmptyUnchanged ==
    (pcInd = "done" /\ IsFrame(ohlcv) /\ Len(ohlcv.index) = 0) =>
        /\ returned = ohlcv
        /\ \A c \in Range(DerivedColumns) : c \notin Range(returned.columns)

\* C5 witness: the call on a zero-row series has returned a frame of five
\* columns.
C5_Witness ==
    /\ pcInd = "done"
    /\ IsFrame(ohlcv)
    /\ Len(ohlcv.index) = 0
    /\ IsFrame(returned)
    /\ returned.columns = OHLCVColumns

\* C10: for a non-empty input series the call only adds the nine derived
\* columns: the rows and their order are unchanged, every derived column has
\* one cell per input row, and the OHLCV columns keep their values.
C10_OnlyAddsColumns ==
    (pcInd = "done" /\ IsFrame(ohlcv) /\ ~Empty(ohlcv)) =>
        /\ IsFrame(returned)
        /\ returned.index = ohlcv.index
        /\ returned.columns = ohlcv.columns \o DerivedColumns
        /\ DOMAIN returned.data = Range(returned.columns)
        /\ \A c \in Range(DerivedColumns) : Len(returned.data[c]) = Len(ohlcv.index)
        /\ \A c \in Range(ohlcv.columns) : returned.data[c] = ohlcv.data[c]

\* C10 witness: a series of at least 50 bars came back with a defined 50-bar
\* average in its last row and an undefined one in the row before the 50th.
C10_Witness ==
    /\ pcInd = "done"
    /\ IsFrame(ohlcv)
    /\ Len(ohlcv.index) >= SMA50Window
    /\ returned.data["SMA_50"][SMA50Window] # NaN
    /\ returned.data["SMA_50"][SMA50Window - 1] = NaN
    /\ returned.data["Close"] = ohlcv.data["Close"]

(***************************************************************************)
(* get_stock_names_sina                                                    *)
(***************************************************************************)
chunk_size == 20

EmptyDict == [k \in {} |-> None]

\* d[k] = v
DictSet(d, k, v) == [x \in (DOMAIN d) \cup {k} |-> IF x = k THEN v ELSE d[x]]

\* The stock number behind the i-th code of an input list.
CodeNumber(i) == 699 + i

\* Spellings of a stock number n as users type it.
Spelling(n, style) ==
    CASE style = 0 -> Decimal(n)
      [] style = 1 -> ZeroFill(Decimal(n), 4) \o HK
      [] style = 2 -> <<" ">> \o ZeroFill(Decimal(n), 5)

\* A code that does not parse as an integer.
Junk(i) == <<"H", "K">> \o Decimal(i)

\* An input list of n codes.  Every junkEvery-th code is unparsable
\* (junkEvery = 0: none is).  The last code repeats the first one: spelled
\* the same (last = "same"), spelled differently (last = "alias"), or not at
\* all (last = "own").
TickerList(n, junkEvery, last) ==
    [i \in 1..n |->
        IF junkEvery > 0 /\ i % junkEvery = 0 THEN Junk(i)
        ELSE IF i = n /\ n > 1 /\ last = "same" THEN Spelling(CodeNumber(1), 1)
        ELSE IF i = n /\ n > 1 /\ last = "alias" THEN Spelling(CodeNumber(1), 0)
        ELSE Spelling(CodeNumber(i), i % 3)]

JunkPeriods == {0, 1, 3, 7}

LastCodes == {"own", "same", "alias"}

\* f"hk{code_int:05d}"
SinaCode(n) == <<"h", "k">> \o FormatZeroPadded(n, 5)

\* The first loop: the lookup keys of the codes that parse, in input order,
\* and the map from each key back to the (last) raw code that gave it.
RECURSIVE BuildCodes(_)
BuildCodes(ts) ==
    IF ts = <<>> THEN [sina_codes |-> <<>>, code_map |-> EmptyDict]
    ELSE LET before == BuildCodes(SubSeq(ts, 1, Len(ts) - 1))
             t == ts[Len(ts)]
             clean_code == Strip(Remove(t, HK))
         IN  IF ParsesInt(clean_code)
             THEN [sina_codes |-> Append(before.sina_codes, SinaCode(IntOf(clean_code))),
                   code_map |-> DictSet(before.code_map, SinaCode(IntOf(clean_code)), t)]
             ELSE before

Min(a, b) == IF a < b THEN a ELSE b

\* Mutant: the slice is one key too long.
Mutant_Chunk_off_by_one(codes, i) == SubSeq(codes, i + 1, Min(i + chunk_size + 1, Len(codes)))

\* sina_codes[i:i+chunk_size] (i counts from 0)
Chunk(codes, i) == SubSeq(codes, i + 1, Min(i + chunk_size, Len(codes)))

\* One line of a response, already split at '="': the key after 'hq_str_'
\* and the comma-separated fields of the right-hand side (none when the
\* right-hand side is empty); or a line without '="'.
RecordLine(key, fields) == [kind |-> "record", key |-> key, fields |-> fields]

GarbageLine == [kind |-> "garbage"]

EnglishName(key) == <<"E", "N">> \o key

ChineseName(key) == <<"C", "N">> \o key

FullRecord(key) == RecordLine(key, <<EnglishName(key), ChineseName(key), <<"1">>>>)

\* The responses the quote provider gives to a request for `keys`:
\*   "all"      a full record for every key
\*   "unknown"  the first key is unknown to the provider: empty right-hand side
\*   "short"    the first key's record has a single field
\*   "noisy"    a line without '=" and a record nobody asked for come first
ResponseKinds == {"all", "unknown", "short", "noisy"}

Response(kind, keys) ==
    LET full == [j \in 1..Len(keys) |-> FullRecord(keys[j])]
    IN  CASE kind = "all" -> full
          [] kind = "unknown" -> [full EXCEPT ![1] = RecordLine(keys[1], <<>>)]
          [] kind = "short" -> [full EXCEPT ![1] = RecordLine(keys[1], <<EnglishName(keys[1])>>)]
          [] kind = "noisy" -> <<GarbageLine, FullRecord(SinaCode(1))>> \o full

\* What requests.get / resp.text can do for one chunk.
ChunkOutcomes(keys) ==
    {[failed |-> TRUE, lines |-> <<>>]} \cup
    {[failed |-> FALSE, lines |-> Response(kind, keys)] : kind \in ResponseKinds}

\* The loop over the lines of one response.
RECURSIVE ParseLines(_, _, _)
ParseLines(lines, map, res) ==
    IF lines = <<>> THEN res
    ELSE LET line == Head(lines)
             named == /\ line.kind = "record"
                      /\ Len(line.fields) > 1
                      /\ line.key \in DOMAIN map
         IN  ParseLines(Tail(lines), map,
                        IF named THEN DictSet(res, map[line.key], line.fields[2]) ELSE res)

\* Mutant: the try block encloses the whole loop, so a failure ends it.
Mutant_AfterChunk_failure_ends_loop(i, n, failed) == IF failed THEN n ELSE i + chunk_size

\* The value of the loop variable after the chunk starting at i, of n keys:
\* the except clause is inside the loop body, so the loop goes on.
AfterChunk(i, n, failed) == i + chunk_size

IdleNames ==
    /\ tickers = <<>>
    /\ sina_codes = <<>>
    /\ code_map = EmptyDict
    /\ results = EmptyDict
    /\ chunkStart = 0
    /\ requests = <<>>
    /\ namesResult = None
    /\ pcNames = "idle"

InitNames ==
    /\ component = "get_stock_names_sina"
    /\ tickers \in {TickerList(n, junkEvery, last) :
                      n \in 0..MaxTickers, junkEvery \in JunkPeriods, last \in LastCodes}
    /\ sina_codes = <<>>
    /\ code_map = EmptyDict
    /\ results = EmptyDict
    /\ chunkStart = 0
    /\ requests = <<>>
    /\ namesResult = None
    /\ pcNames = "call"

\* Lines 201-222: the early return for an empty list, the first loop, the
\* early return when no code parsed.
PrepareCodes ==
    /\ component = "get_stock_names_sina"
    /\ pcNames = "call"
    /\ LET built == BuildCodes(tickers)
       IN  IF tickers = <<>> \/ built.sina_codes = <<>>
           THEN /\ namesResult' = Returned(EmptyDict)
                /\ pcNames' = "done"
                /\ sina_codes' = IF tickers = <<>> THEN <<>> ELSE built.sina_codes
                /\ code_map' = IF tickers = <<>> THEN EmptyDict ELSE built.code_map
           ELSE /\ sina_codes' = built.sina_codes
                /\ code_map' = built.code_map
                /\ pcNames' = "chunks"
                /\ UNCHANGED namesResult
    /\ UNCHANGED <<component, tickers, results, chunkStart, requests>>

\* One iteration of the chunk loop: the request, and either the parse of the
\* response or the except clause.
FetchChunk ==
    /\ component = "get_stock_names_sina"
    /\ pcNames = "chunks"
    /\ chunkStart < Len(sina_codes)
    /\ LET chunk == Chunk(sina_codes, chunkStart)
       IN  \E outcome \in ChunkOutcomes(chunk) :
              /\ requests' = Append(requests, [keys |-> chunk,
                                               failed |-> outcome.failed,
                                               lines |-> outcome.lines])
              /\ results' = IF outcome.failed THEN results
                            ELSE ParseLines(outcome.lines, code_map, results)
              /\ chunkStart' = AfterChunk(chunkStart, Len(sina_codes), outcome.failed)
    /\ UNCHANGED <<component, tickers, sina_codes, code_map, namesResult, pcNames>>

\* Line 262: the loop is over, results is returned.
ReturnNames ==
    /\ component = "get_stock_names_sina"
    /\ pcNames = "chunks"
    /\ chunkStart >= Len(sina_codes)
    /\ namesResult' = Returned(results)
    /\ pcNames' = "done"
    /\ UNCHANGED <<component, tickers, sina_codes, code_map, results, chunkStart, requests>>

(***************************************************************************)
(* Claims about get_stock_names_sina                                       *)
(***************************************************************************)
\* The input positions whose code parses as an integer once '.HK' and
\* surrounding blanks are removed.
Parsable == {i \in 1..Len(tickers) : ParsesInt(Strip(Remove(tickers[i], HK)))}

CeilDiv(a, b) == (a + b - 1) \div b

\* C6: the number of requests issued is ceil(k / 20), k the number of input
\* codes that parse as integers, and every request carries at most 20 keys:
\* one request for k = 20, two for k = 21, none for k = 0.
C6_RequestCount ==
    pcNames = "done" =>
        /\ Len(requests) = CeilDiv(Cardinality(Parsable), 20)
        /\ \A r \in 1..Len(requests) :
              Len(requests[r].keys) >= 1 /\ Len(requests[r].keys) <= 20
        /\ (Cardinality(Parsable) = 20 => Len(requests) = 1)
        /\ (Cardinality(Parsable) = 21 => Len(requests) = 2)
        /\ (Cardinality(Parsable) = 0 => Len(requests) = 0)

\* C6 witness: a list with exactly 21 parsable codes among 24 has been
\* resolved with two requests, of 20 keys and of 1 key.
C6_Witness ==
    /\ pcNames = "done"
    /\ Len(tickers) = 24
    /\ Cardinality(Parsable) = 21
    /\ Len(requests) = 2
    /\ Len(requests[1].keys) = 20
    /\ Len(requests[2].keys) = 1

\* The names the successful requests delivered: raw code t gets name v when
\* a response that arrived holds a record of at least two fields, second
\* field v, whose key maps back to t.
Delivered(t, v) ==
    \E r \in 1..Len(requests) :
        /\ ~requests[r].failed
        /\ \E j \in 1..Len(requests[r].lines) :
              LET line == requests[r].lines[j]
              IN  /\ line.kind = "record"
                  /\ Len(line.fields) > 1
                  /\ line.fields[2] = v
                  /\ line.key \in DOMAIN code_map
                  /\ code_map[line.key] = t

\* C7: a failure while processing one chunk does not abort the call.  Every
\* chunk is requested, whatever happened to the chunks before it; the names
\* of the chunks that succeeded are returned; a failed chunk contributes no
\* name; no exception reaches the caller.
C7_FailureIsolated ==
    pcNames = "done" =>
        /\ namesResult.kind = "returned"
        /\ Len(requests) = CeilDiv(Len(sina_codes), chunk_size)
        /\ \A r \in 1..Len(requests) :
              requests[r].keys =
                  SubSeq(sina_codes, (r - 1) * 20 + 1, Min(r * 20, Len(sina_codes)))
        /\ \A t \in DOMAIN namesResult.value : Delivered(t, namesResult.value[t])
        /\ \A t \in Range(tickers) :
              (\E v \in {ChineseName(k) : k \in Range(sina_codes)} : Delivered(t, v))
                  => t \in DOMAIN namesResult.value

\* C7 witness: the first of two chunks failed, the second was still
\* requested and its name was returned.
C7_Witness ==
    /\ pcNames = "done"
    /\ Len(requests) = 2
    /\ requests[1].failed
    /\ ~requests[2].failed
    /\ namesResult.kind = "returned"
    /\ DOMAIN namesResult.value # {}
    /\ code_map[requests[1].keys[2]] \notin DOMAIN namesResult.value

\* C8 as stated: the result is keyed by raw input codes.  An input code is in
\* the result, mapped to the record's second field, exactly when it parses
\* as an integer and a successful response holds a record of at least two
\* fields for its lookup key; every other input code is absent.
C8_Original ==
    pcNames = "done" =>
        /\ DOMAIN namesResult.value \subseteq Range(tickers)
        /\ \A i \in 1..Len(tickers) :
              LET t == tickers[i]
                  key == SinaCode(IntOf(Strip(Remove(t, HK))))
                  answered ==
                      /\ i \in Parsable
                      /\ \E r \in 1..Len(requests) :
                            /\ ~requests[r].failed
                            /\ \E j \in 1..Len(requests[r].lines) :
                                  /\ requests[r].lines[j].kind = "record"
                                  /\ requests[r].lines[j].key = key
                                  /\ Len(requests[r].lines[j].fields) > 1
              IN  IF answered
                  THEN t \in DOMAIN namesResult.value /\ namesResult.value[t] = ChineseName(key)
                  ELSE t \notin DOMAIN namesResult.value

(***************************************************************************)
(* get_news (the definition at line 264, which replaces the one at 183)    *)
(***************************************************************************)
\* dict.get(key, default)
Get(d, key, default) == IF key \in DOMAIN d THEN d[key] ELSE default

\* dict.get(key)
GetOrNone(d, key) == Get(d, key, None)

\* Truth value of a dict-or-None
TruthyDict(d) == d # None /\ DOMAIN d # {}

\* Items of the flat legacy shape: complete, and with nothing but a title.
FlatItems ==
    {[title |-> "T1", link |-> "L1", publisher |-> "P1", providerPublishTime |-> 1700000000],
     [title |-> "T2"]}

\* Items of the nested shape: complete; without clickThroughUrl but with a
\* canonicalUrl and without a provider; with an empty content.
NestedItems ==
    {[content |-> [title |-> "T3", clickThroughUrl |-> [url |-> "L3"],
                   provider |-> [displayName |-> "P3"], pubDate |-> "2026-01-02T03:04:05Z"]],
     [content |-> [title |-> "T4", clickThroughUrl |-> None,
                   canonicalUrl |-> [url |-> "L4"], provider |-> None,
                   pubDate |-> "2026-01-03T00:00:00Z"]],
     [content |-> [k \in {} |-> None]]}

NewsItems == FlatItems \cup NestedItems

\* What stock.news can do: raise, return None, or return a list of items.
NewsOutcomes ==
    {[kind |-> "raises"], [kind |-> "None"]} \cup
    {[kind |-> "list", items |-> items] :
        items \in UNION {[1..n -> NewsItems] : n \in 0..MaxNews}}

\* Lines 280-310: the record built from an item that has a 'content' key.
FromNested(item) ==
    LET c == item.content
        click_through == GetOrNone(c, "clickThroughUrl")
        link1 == IF TruthyDict(click_through) THEN Get(click_through, "url", "") ELSE ""
        canonical == GetOrNone(c, "canonicalUrl")
        link == IF link1 = "" /\ TruthyDict(canonical) THEN Get(canonical, "url", "")
                ELSE link1
        provider_ == GetOrNone(c, "provider")
        publisher == IF TruthyDict(provider_) THEN Get(provider_, "displayName", "Unknown")
                     ELSE "Unknown"
    IN  [title |-> Get(c, "title", "No Title"),
         link |-> link,
         publisher |-> publisher,
         pubDate |-> Get(c, "pubDate", ""),
         is_new_format |-> TRUE]

\* Lines 311-319: the record built from an item of the old structure.
FromFlat(item) ==
    [title |-> Get(item, "title", "No Title"),
     link |-> Get(item, "link", ""),
     publisher |-> Get(item, "publisher", "Unknown"),
     providerPublishTime |-> Get(item, "providerPublishTime", 0),
     is_new_format |-> FALSE]

\* Mutant: both shapes are written under one key set, timestamp key and flag
\* taken from the old structure.
Mutant_ProcessItem_one_shape(item) ==
    IF "content" \in DOMAIN item
    THEN LET r == FromNested(item)
         IN  [title |-> r.title, link |-> r.link, publisher |-> r.publisher,
              providerPublishTime |-> r.pubDate, is_new_format |-> FALSE]
    ELSE FromFlat(item)

\* The body of the loop over raw_news.
ProcessItem(item) == IF "content" \in DOMAIN item THEN FromNested(item) ELSE FromFlat(item)

\* get_news against a provider whose stock.news does `news`.
get_news(t, news) ==
    IF news.kind = "raises" THEN Returned(<<>>)
    ELSE IF news.kind = "None" \/ news.items = <<>> THEN Returned(<<>>)
    ELSE Returned([i \in 1..Len(news.items) |-> ProcessItem(news.items[i])])

IdleNews ==
    /\ newsTicker = <<>>
    /\ raw_news = None
    /\ newsResult = None
    /\ pcNews = "idle"

InitNews ==
    /\ component = "get_news"
    /\ newsTicker \in {<<"7", "0", "0">>, <<"0", "7", "0", "0", ".", "H", "K">>}
    /\ raw_news = None
    /\ newsResult = None
    /\ pcNews = "call"

\* One call of get_news; the provider's behaviour is chosen here.
GetNews ==
    /\ component = "get_news"
    /\ pcNews = "call"
    /\ \E news \in NewsOutcomes :
          /\ raw_news' = news
          /\ newsResult' = get_news(newsTicker, news)
    /\ pcNews' = "done"
    /\ UNCHANGED <<component, newsTicker>>

(***************************************************************************)
(* Claims about get_news                                                   *)
(***************************************************************************)
CommonFields == {"title", "link", "publisher"}

\* C9 as stated: every record get_news returns has the field set
\* {title, link, publisher, published_at}, and records made from flat items
\* and from nested items carry the same keys.
C9_Original ==
    pcNews = "done" =>
        /\ \A i \in 1..Len(newsResult.value) :
              DOMAIN newsResult.value[i] = CommonFields \cup {"published_at"}
        /\ \A i, j \in 1..Len(newsResult.value) :
              DOMAIN newsResult.value[i] = DOMAIN newsResult.value[j]

\* C9 as amended: every record has title, link and publisher, and one of two
\* field sets.  A nested item gives {title, link, publisher, pubDate,
\* is_new_format} with is_new_format true; a flat item gives {title, link,
\* publisher, providerPublishTime, is_new_format} with is_new_format false.
\* No record has a published_at key.
C9_TwoShapes ==
    (pcNews = "done" /\ raw_news.kind = "list") =>
        /\ newsResult.kind = "returned"
        /\ Len(newsResult.value) = Len(raw_news.items)
        /\ \A i \in 1..Len(newsResult.value) :
              LET rec == newsResult.value[i]
              IN  IF "content" \in DOMAIN raw_news.items[i]
                  THEN /\ DOMAIN rec = CommonFields \cup {"pubDate", "is_new_format"}
                       /\ rec.is_new_format
                  ELSE /\ DOMAIN rec = CommonFields \cup {"providerPublishTime", "is_new_format"}
                       /\ ~rec.is_new_format

\* C9 witness: a flat item and a nested item came back as two records with
\* different keys.
C9_Witness ==
    /\ pcNews = "done"
    /\ newsResult.kind = "returned"
    /\ Len(newsResult.value) = 2
    /\ "content" \notin DOMAIN raw_news.items[1]
    /\ "content" \in DOMAIN raw_news.items[2]
    /\ "providerPublishTime" \in DOMAIN newsResult.value[1]
    /\ "pubDate" \in DOMAIN newsResult.value[2]

(***************************************************************************)
(* The narrative of the single-stock tab (app.py)                          *)
(*                                                                         *)
(* The rules read nine floats from the last rows of the frame.  A float is *)
(* a cell: NaN, or the value times PriceScale.                             *)
(***************************************************************************)
Mutant_Gt_undefined_is_lowest(a, b) == a # NaN /\ (b = NaN \/ a[1] > b[1])

\* a > b and a < b on floats: a comparison with NaN is False.
Gt(a, b) == a # NaN /\ b # NaN /\ a[1] > b[1]

Lt(a, b) == a # NaN /\ b # NaN /\ a[1] < b[1]

\* a - b on floats.
Sub(a, b) == IF a = NaN \/ b = NaN THEN NaN ELSE Cell(a[1] - b[1])

Inf == Cell("inf")

NegInf == Cell("-inf")

\* a / b * 100 on numpy floats, as a fixed-point percentage: a division by
\* zero raises nothing, 0/0 is NaN and x/0 is an infinity.
PercentOf(a, b) ==
    IF a = NaN \/ b = NaN THEN NaN
    ELSE IF b[1] = 0
         THEN IF a[1] = 0 THEN NaN ELSE IF a[1] > 0 THEN Inf ELSE NegInf
         ELSE Cell((a[1] * 100 * PriceScale) \div b[1])

Float(n) == Cell(n * PriceScale)

ClosePrices == {Float(100), Float(104)}

PrevClosePrices == {Float(100), Float(104)}

Averages == {NaN, Float(96), Float(100), Float(104)}

\* The bands of a series: both undefined (fewer bars than the window), or
\* low <= high (low = high on a series that did not move over the window).
Bands ==
    {[bb_high |-> NaN, bb_low |-> NaN]} \cup
    {b \in [bb_high : {Float(100), Float(104), Float(108)},
            bb_low : {Float(96), Float(100), Float(104)}] : b.bb_low[1] <= b.bb_high[1]}

RSIValues == {NaN, Float(20), Float(30), Float(40), Float(55), Float(70), Float(85)}

MACDValues == {NaN, Float(-2), Float(-1), Float(0), Float(1)}

Snapshot(c, p, s20, s50, r, m, ms, b) ==
    [last_close |-> c, prev_close |-> p, sma20 |-> s20, sma50 |-> s50, rsi |-> r,
     macd |-> m, macd_signal |-> ms, bb_high |-> b.bb_high, bb_low |-> b.bb_low]

RSIOverbought == 70

RSIOversold == 30

RSIFloor == 40

Mutant_ma_status_ties_above(s) ==
    IF ~Lt(s.last_close, s.sma20) /\ ~Lt(s.last_close, s.sma50) THEN "bullish alignment"
    ELSE IF Lt(s.last_close, s.sma20) /\ Lt(s.last_close, s.sma50) THEN "bearish alignment"
    ELSE IF ~Lt(s.last_close, s.sma20) THEN "short-term rebound"
    ELSE "short-term pullback"

\* 1. the moving averages: "多头排列", "空头排列", "短期反弹", "短期回调"
ma_status(s) ==
    IF Gt(s.last_close, s.sma20) /\ Gt(s.last_close, s.sma50) THEN "bullish alignment"
    ELSE IF Lt(s.last_close, s.sma20) /\ Lt(s.last_close, s.sma50) THEN "bearish alignment"
    ELSE IF Gt(s.last_close, s.sma20) THEN "short-term rebound"
    ELSE "short-term pullback"

\* width < close * 0.05
Narrow(width, close) == width # NaN /\ close # NaN /\ width[1] * 100 < close[1] * 5

\* 2. the Bollinger bands: the finding, and inside the channel the
\* position bb_pos and the note that the channel is narrowing.
bb_desc(s) ==
    IF Gt(s.last_close, s.bb_high) THEN [kind |-> "broke above"]
    ELSE IF Lt(s.last_close, s.bb_low) THEN [kind |-> "broke below"]
    ELSE [kind |-> "inside",
          bb_pos |-> PercentOf(Sub(s.last_close, s.bb_low), Sub(s.bb_high, s.bb_low)),
          squeeze |-> Narrow(Sub(s.bb_high, s.bb_low), s.last_close)]

Mutant_rsi_status_inclusive(s) ==
    IF ~Lt(s.rsi, Float(RSIOverbought)) /\ s.rsi # NaN THEN "overbought"
    ELSE IF ~Gt(s.rsi, Float(RSIOversold)) /\ s.rsi # NaN THEN "oversold"
    ELSE "neutral"

\* 3. momentum: "超买", "超卖", "中性"
rsi_status(s) ==
    IF Gt(s.rsi, Float(RSIOverbought)) THEN "overbought"
    ELSE IF Lt(s.rsi, Float(RSIOversold)) THEN "oversold"
    ELSE "neutral"

\* "金叉" (MACD above its signal) or "死叉"
macd_status(s) == IF Gt(s.macd, s.macd_signal) THEN "bullish" ELSE "bearish"

\* the qualifier appended to the MACD sentence
macd_axis(s) ==
    IF Gt(s.macd, Float(0)) /\ Gt(s.macd_signal, Float(0)) THEN "above zero"
    ELSE IF Lt(s.macd, Float(0)) /\ Lt(s.macd_signal, Float(0)) THEN "below zero"
    ELSE "none"

Mutant_score_whole_steps(s) ==
    (IF Gt(s.last_close, s.sma20) THEN PriceScale ELSE 0)
    + (IF Gt(s.last_close, s.sma50) THEN PriceScale ELSE 0)
    + (IF Lt(s.rsi, Float(RSIOverbought)) /\ Gt(s.rsi, Float(RSIFloor)) THEN PriceScale ELSE 0)
    + (IF Gt(s.macd, s.macd_signal) THEN PriceScale ELSE 0)
    + (IF Gt(s.last_close, s.prev_close) THEN PriceScale ELSE 0)

\* 4. the score, in fixed point: PriceScale for 1, PriceScale \div 2 for 0.5
score(s) ==
    (IF Gt(s.last_close, s.sma20) THEN PriceScale ELSE 0)
    + (IF Gt(s.last_close, s.sma50) THEN PriceScale ELSE 0)
    + (IF Lt(s.rsi, Float(RSIOverbought)) /\ Gt(s.rsi, Float(RSIFloor)) THEN PriceScale ELSE 0)
    + (IF Gt(s.macd, s.macd_signal) THEN PriceScale ELSE 0)
    + (IF Gt(s.last_close, s.prev_close) THEN PriceScale \div 2 ELSE 0)

Mutant_recommendation_bullish_from_3_5(sc) ==
    IF 2 * sc >= 7 * PriceScale THEN "bullish"
    ELSE IF sc <= 1 * PriceScale THEN "cautious/wait"
    ELSE "neutral/hold"

\* "积极看多", "谨慎观望", "中性持有"
recommendation(sc) ==
    IF sc >= 4 * PriceScale THEN "bullish"
    ELSE IF sc <= 1 * PriceScale THEN "cautious/wait"
    ELSE "neutral/hold"

Narrative(s) ==
    [ma_status |-> ma_status(s),
     bb_desc |-> bb_desc(s),
     rsi_status |-> rsi_status(s),
     macd_status |-> macd_status(s),
     macd_axis |-> macd_axis(s),
     score |-> score(s),
     recommendation |-> recommendation(score(s))]

IdleNarr ==
    /\ snapshot = None
    /\ findings = None
    /\ pcNarr = "idle"

InitNarr ==
    /\ component = "narrative"
    /\ snapshot \in {Snapshot(c, p, s20, s50, r, m, ms, b) :
                        c \in ClosePrices, p \in PrevClosePrices,
                        s20 \in Averages, s50 \in Averages, r \in RSIValues,
                        m \in MACDValues, ms \in MACDValues, b \in Bands}
    /\ findings = None
    /\ pcNarr = "call"

Narrate ==
    /\ component = "narrative"
    /\ pcNarr = "call"
    /\ findings' = Narrative(snapshot)
    /\ pcNarr' = "done"
    /\ UNCHANGED <<component, snapshot>>

(***************************************************************************)
(* Claims about the narrative                                              *)
(***************************************************************************)
Above(x, y) == x # NaN /\ y # NaN /\ x[1] > y[1]

Below(x, y) == x # NaN /\ y # NaN /\ x[1] < y[1]

\* C11: the trend regime is one of four values, chosen in priority order:
\* bullish alignment when close > SMA_20 and close > SMA_50; otherwise
\* bearish alignment when close < SMA_20 and close < SMA_50; otherwise
\* short-term rebound when close > SMA_20; otherwise short-term pullback.
\* A close equal to an average takes no 'greater than' branch.
C11_TrendRegime ==
    pcNarr = "done" =>
        LET c == snapshot.last_close
            bull == Above(c, snapshot.sma20) /\ Above(c, snapshot.sma50)
            bear == Below(c, snapshot.sma20) /\ Below(c, snapshot.sma50)
            r == findings.ma_status
        IN  /\ r \in {"bullish alignment", "bearish alignment",
                      "short-term rebound", "short-term pullback"}
            /\ (r = "bullish alignment") <=> bull
            /\ (r = "bearish alignment") <=> (~bull /\ bear)
            /\ (r = "short-term rebound") <=> (~bull /\ ~bear /\ Above(c, snapshot.sma20))
            /\ (r = "short-term pullback") <=> (~bull /\ ~bear /\ ~Above(c, snapshot.sma20))
            /\ c = snapshot.sma50 => r # "bullish alignment"
            /\ c = snapshot.sma20 => r \notin {"bullish alignment", "short-term rebound"}

\* a close on the 20-bar average and above the 50-bar average: pullback
C11_Witness ==
    /\ pcNarr = "done"
    /\ snapshot.last_close = snapshot.sma20
    /\ Above(snapshot.last_close, snapshot.sma50)
    /\ findings.ma_status = "short-term pullback"

\* C12 as stated: 'broke above' when close > BB_High, 'broke below' when
\* close < BB_Low, and otherwise the position of the close in the channel,
\* (close - BB_Low) / (BB_High - BB_Low) * 100, a defined value in [0, 100]
\* for every snapshot with BB_Low <= close <= BB_High, with the squeeze note
\* exactly when BB_High - BB_Low < close * 0.05.
C12_Original ==
    pcNarr = "done" =>
        LET c == snapshot.last_close
            h == snapshot.bb_high
            l == snapshot.bb_low
            b == findings.bb_desc
        IN  /\ (b.kind = "broke above") <=> Above(c, h)
            /\ (b.kind = "broke below") <=> (~Above(c, h) /\ Below(c, l))
            /\ (b.kind = "inside") <=> (~Above(c, h) /\ ~Below(c, l))
            /\ (h # NaN /\ l # NaN /\ l[1] <= c[1] /\ c[1] <= h[1]) =>
                   /\ b.kind = "inside"
                   /\ b.bb_pos # NaN
                   /\ b.bb_pos[1] >= 0
                   /\ b.bb_pos[1] <= 100 * PriceScale
                   /\ b.squeeze <=> ((h[1] - l[1]) * 20 < c[1])

\* C13: RSI > 70 is overbought, RSI < 30 is oversold, anything else (30 and
\* 70 included) is neutral; MACD > signal is bullish, anything else (a tie
\* included) is bearish; the zero-axis qualifier is added exactly when MACD
\* and signal are both above or both below zero; none of this depends on
\* the trend regime.
C13_Momentum ==
    pcNarr = "done" =>
        LET r == snapshot.rsi
            m == snapshot.macd
            g == snapshot.macd_signal
        IN  /\ (findings.rsi_status = "overbought") <=> (r # NaN /\ r[1] > 70 * PriceScale)
            /\ (findings.rsi_status = "oversold") <=> (r # NaN /\ r[1] < 30 * PriceScale)
            /\ findings.rsi_status \in {"overbought", "oversold", "neutral"}
            /\ (findings.macd_status = "bullish") <=> Above(m, g)
            /\ (findings.macd_status = "bearish") <=> ~Above(m, g)
            /\ (findings.macd_axis = "above zero") <=> (Above(m, Cell(0)) /\ Above(g, Cell(0)))
            /\ (findings.macd_axis = "below zero") <=> (Below(m, Cell(0)) /\ Below(g, Cell(0)))
            /\ findings.macd_axis \in {"above zero", "below zero", "none"}

\* RSI exactly 70 with MACD equal to a negative signal: neutral, bearish,
\* below zero
C13_Witness ==
    /\ pcNarr = "done"
    /\ snapshot.rsi = Cell(70 * PriceScale)
    /\ snapshot.macd = snapshot.macd_signal
    /\ Below(snapshot.macd, Cell(0))
    /\ findings.rsi_status = "neutral"
    /\ findings.macd_status = "bearish"
    /\ findings.macd_axis = "below zero"

\* C14: the score is the sum of +1 for close > SMA_20, +1 for close >
\* SMA_50, +1 for 40 < RSI < 70, +1 for MACD > signal and +0.5 for close >
\* previous close, a multiple of 0.5 in [0, 4.5]; the rating is bullish when
\* score >= 4, cautious/wait when score <= 1, neutral/hold otherwise.
C14_Score ==
    pcNarr = "done" =>
        LET c == snapshot.last_close
            units == {u \in 1..4 :
                         \/ u = 1 /\ Above(c, snapshot.sma20)
                         \/ u = 2 /\ Above(c, snapshot.sma50)
                         \/ u = 3 /\ Above(snapshot.rsi, Cell(40 * PriceScale))
                                  /\ Below(snapshot.rsi, Cell(70 * PriceScale))
                         \/ u = 4 /\ Above(snapshot.macd, snapshot.macd_signal)}
            halves == 2 * Cardinality(units) + (IF Above(c, snapshot.prev_close) THEN 1 ELSE 0)
        IN  /\ 2 * findings.score = halves * PriceScale
            /\ halves \in 0..9
            /\ (findings.recommendation = "bullish") <=> (halves >= 8)
            /\ (findings.recommendation = "cautious/wait") <=> (halves <= 2)
            /\ (findings.recommendation = "neutral/hold") <=> (halves > 2 /\ halves < 8)

\* three unit signals and a rising close: 3.5, neutral/hold
C14_Witness ==
    /\ pcNarr = "done"
    /\ findings.score = 3 * PriceScale + PriceScale \div 2
    /\ findings.recommendation = "neutral/hold"

\* C21: the rating is bullish exactly when the four unit signals hold
\* together (close > SMA_20, close > SMA_50, 40 < RSI < 70, MACD > signal);
\* close > previous close never decides it; an overbought or oversold
\* snapshot and a bearish-alignment snapshot are never bullish, and a
\* bullish-alignment snapshot is never cautious/wait.
C21_BullishNeedsAllFour ==
    pcNarr = "done" =>
        LET c == snapshot.last_close
            r == snapshot.rsi
            allFour == /\ Above(c, snapshot.sma20)
                       /\ Above(c, snapshot.sma50)
                       /\ Above(r, Cell(40 * PriceScale))
                       /\ Below(r, Cell(70 * PriceScale))
                       /\ Above(snapshot.macd, snapshot.macd_signal)
        IN  /\ (findings.recommendation = "bullish") <=> allFour
            /\ findings.rsi_status \in {"overbought", "oversold"} =>
                   findings.recommendation # "bullish"
            /\ findings.ma_status = "bearish alignment" => findings.recommendation # "bullish"
            /\ findings.ma_status = "bullish alignment" =>
                   findings.recommendation # "cautious/wait"

\* three unit signals, RSI overbought and a rising close: 3.5, not bullish
C21_Witness ==
    /\ pcNarr = "done"
    /\ findings.ma_status = "bullish alignment"
    /\ findings.rsi_status = "overbought"
    /\ Above(snapshot.macd, snapshot.macd_signal)
    /\ Above(snapshot.last_close, snapshot.prev_close)
    /\ findings.recommendation = "neutral/hold"

(***************************************************************************)
(* The ticker list store: load_tickers_from_json, save_tickers_to_json     *)
(*                                                                         *)
(* tickers.json is Missing or holds a text.  json.dump and json.load are   *)
(* modelled on the text, for documents whose values are lists of strings.  *)
(***************************************************************************)
Missing == [kind |-> "missing"]

FileText(t) == [kind |-> "file", text |-> t]

NoneValue == [kind |-> "None"]

ListValue(l) == [kind |-> "list", items |-> l]

DictValue(d) == [kind |-> "dict", members |-> d]

TickersKey == <<"t", "i", "c", "k", "e", "r", "s">>

StoreAlphabet == {"7", " ", "\"", "\\"}

RECURSIVE StoreStrings(_)
StoreStrings(n) ==
    IF n = 0 THEN {<<>>}
    ELSE StoreStrings(n - 1) \cup
         {Append(s, c) : s \in {x \in StoreStrings(n - 1) : Len(x) = n - 1}, c \in StoreAlphabet}

RECURSIVE ListsOf(_, _)
ListsOf(S, n) ==
    IF n = 0 THEN {<<>>}
    ELSE ListsOf(S, n - 1) \cup
         {Append(l, s) : l \in {x \in ListsOf(S, n - 1) : Len(x) = n - 1}, s \in S}

TickerLists == ListsOf(StoreStrings(MaxStoreLen), MaxStoreList)

Mutant_EscapeChar_raw(c) == <<c>>

\* json.dump, ensure_ascii=False: the characters a string cannot hold raw
EscapeChar(c) ==
    IF c = "\"" THEN <<"\\", "\"">>
    ELSE IF c = "\\" THEN <<"\\", "\\">>
    ELSE IF c = "\n" THEN <<"\\", "n">>
    ELSE <<c>>

RECURSIVE Escape(_)
Escape(s) == IF s = <<>> THEN <<>> ELSE EscapeChar(Head(s)) \o Escape(Tail(s))

EncodeString(s) == <<"\"">> \o Escape(s) \o <<"\"">>

Indent(level) == [i \in 1..(4 * level) |-> " "]

RECURSIVE EncodeItems(_, _, _)
EncodeItems(l, i, level) ==
    IF i > Len(l) THEN <<>>
    ELSE <<"\n">> \o Indent(level) \o EncodeString(l[i])
         \o (IF i < Len(l) THEN <<",">> ELSE <<>>) \o EncodeItems(l, i + 1, level)

\* a list with indent=4: one item per line, [] when empty
EncodeList(l, level) ==
    IF l = <<>> THEN <<"[", "]">>
    ELSE <<"[">> \o EncodeItems(l, 1, level + 1) \o <<"\n">> \o Indent(level) \o <<"]">>

\* json.dump({'tickers': tickers}, f, indent=4, ensure_ascii=False)
Dump(l) ==
    <<"{", "\n">> \o Indent(1) \o EncodeString(TickersKey) \o <<":", " ">>
    \o EncodeList(l, 1) \o <<"\n", "}">>

Fail == [ok |-> FALSE]

Parsed(v, next) == [ok |-> TRUE, value |-> v, next |-> next]

\* the character at position i, "" past the end
At(t, i) == IF i \in 1..Len(t) THEN t[i] ELSE ""

JsonSpace == {" ", "\n", "\t", "\r"}

RECURSIVE SkipWs(_, _)
SkipWs(t, i) == IF At(t, i) \in JsonSpace THEN SkipWs(t, i + 1) ELSE i

\* the string whose opening quote is before position j
RECURSIVE ScanString(_, _, _)
ScanString(t, j, acc) ==
    IF j > Len(t) \/ t[j] = "\n" THEN Fail
    ELSE IF t[j] = "\"" THEN Parsed(acc, j + 1)
    ELSE IF t[j] = "\\"
         THEN IF At(t, j + 1) \in {"\"", "\\", "/"}
              THEN ScanString(t, j + 2, Append(acc, t[j + 1]))
              ELSE IF At(t, j + 1) = "n" THEN ScanString(t, j + 2, Append(acc, "\n"))
              ELSE Fail
         ELSE ScanString(t, j + 1, Append(acc, t[j]))

RECURSIVE ParseElements(_, _, _)
ParseElements(t, j, acc) ==
    IF At(t, j) # "\"" THEN Fail
    ELSE LET s == ScanString(t, j + 1, <<>>)
             k == SkipWs(t, s.next)
         IN  IF ~s.ok THEN Fail
             ELSE IF At(t, k) = "," THEN ParseElements(t, SkipWs(t, k + 1), Append(acc, s.value))
             ELSE IF At(t, k) = "]" THEN Parsed(Append(acc, s.value), k + 1)
             ELSE Fail

\* the array whose "[" is at position i
ParseArray(t, i) ==
    LET j == SkipWs(t, i + 1)
    IN  IF At(t, j) = "]" THEN Parsed(<<>>, j + 1) ELSE ParseElements(t, j, <<>>)

RECURSIVE ParseMembers(_, _, _)
ParseMembers(t, j, acc) ==
    IF At(t, j) # "\"" THEN Fail
    ELSE LET key == ScanString(t, j + 1, <<>>)
             colon == SkipWs(t, key.next)
             start == SkipWs(t, colon + 1)
             v == ParseArray(t, start)
             k == SkipWs(t, v.next)
         IN  IF ~key.ok \/ At(t, colon) # ":" \/ At(t, start) # "[" THEN Fail
             ELSE IF ~v.ok THEN Fail
             ELSE IF At(t, k) = ","
                  THEN ParseMembers(t, SkipWs(t, k + 1), DictSet(acc, key.value, v.value))
             ELSE IF At(t, k) = "}" THEN Parsed(DictSet(acc, key.value, v.value), k + 1)
             ELSE Fail

\* the object whose "{" is at position i
ParseObject(t, i) ==
    LET j == SkipWs(t, i + 1)
    IN  IF At(t, j) = "}" THEN Parsed(EmptyDict, j + 1) ELSE ParseMembers(t, j, EmptyDict)

\* json.load: the document, or Fail where json.load raises
Load(t) ==
    LET i == SkipWs(t, 1)
        v == IF At(t, i) = "{" THEN ParseObject(t, i)
             ELSE IF At(t, i) = "[" THEN ParseArray(t, i)
             ELSE Fail
    IN  IF ~v.ok THEN Fail
        ELSE IF SkipWs(t, v.next) <= Len(t) THEN Fail
        ELSE IF At(t, i) = "{" THEN Parsed(DictValue(v.value), v.next)
        ELSE Parsed(ListValue(v.value), v.next)

Mutant_load_tickers_from_json_empty_list(f) ==
    IF f = Missing THEN ListValue(<<>>)
    ELSE LET data == Load(f.text)
         IN  IF ~data.ok THEN NoneValue
             ELSE IF data.value.kind # "dict" THEN NoneValue
             ELSE IF TickersKey \in DOMAIN data.value.members
                  THEN ListValue(data.value.members[TickersKey])
                  ELSE ListValue(<<>>)

\* load_tickers_from_json(file_path): what it returns for the file f
load_tickers_from_json(f) ==
    IF f = Missing THEN NoneValue
    ELSE LET data == Load(f.text)
         IN  IF ~data.ok THEN NoneValue
             ELSE IF data.value.kind # "dict" THEN NoneValue
             ELSE IF TickersKey \in DOMAIN data.value.members
                  THEN ListValue(data.value.members[TickersKey])
                  ELSE ListValue(<<>>)

DiskOutcomes == {"written", "fails"}

\* save_tickers_to_json(tickers, file_path): the file afterwards and the
\* value returned, when the file before is f
save_tickers_to_json(l, f, disk) ==
    IF disk = "written"
    THEN [file |-> FileText(Dump(l)), result |-> "True"]
    ELSE [file |-> f, result |-> "False"]

InitialFiles ==
    {Missing,
     FileText(Dump(<<<<"7">>>>)),
     FileText(<<"{", "}">>),
     FileText(<<"[", "]">>),
     FileText(<<"{">>)}

IdleStore ==
    /\ file = None
    /\ saveArg = None
    /\ saveResult = None
    /\ loadResult = None
    /\ pcStore = "idle"

InitStore ==
    /\ component = "store"
    /\ file \in InitialFiles
    /\ saveArg \in TickerLists
    /\ saveResult = "not called"
    /\ loadResult = NoneValue
    /\ pcStore = "start"

SaveTickers ==
    /\ component = "store"
    /\ pcStore = "start"
    /\ \E disk \in DiskOutcomes :
          LET saved == save_tickers_to_json(saveArg, file, disk)
          IN  /\ file' = saved.file
              /\ saveResult' = saved.result
    /\ pcStore' = "saved"
    /\ UNCHANGED <<component, saveArg, loadResult>>

LoadTickers ==
    /\ component = "store"
    /\ pcStore \in {"start", "saved"}
    /\ loadResult' = load_tickers_from_json(file)
    /\ pcStore' = "loaded"
    /\ UNCHANGED <<component, file, saveArg, saveResult>>

(***************************************************************************)
(* Claims about the ticker list store                                      *)
(***************************************************************************)
\* C15 as stated: loading when no file exists returns an empty list, not
\* an error and not an absent value.
C15_Original ==
    (pcStore = "loaded" /\ file = Missing) => loadResult = ListValue(<<>>)

\* C15: loading when no file exists returns None without raising.
C15_MissingIsNone ==
    (pcStore = "loaded" /\ file = Missing) => loadResult = NoneValue

C15_Witness ==
    /\ pcStore = "loaded"
    /\ file = Missing
    /\ saveResult = "not called"
    /\ loadResult = NoneValue

\* C16: a successful save of a list L followed by a load returns exactly
\* L, the same elements in the same order.
C16_RoundTrip ==
    (pcStore = "loaded" /\ saveResult = "True") => loadResult = ListValue(saveArg)

\* a list of two strings, a quote and a backslash
C16_Witness ==
    /\ pcStore = "loaded"
    /\ saveResult = "True"
    /\ saveArg = <<<<"\"">>, <<"\\">>>>
    /\ loadResult = ListValue(saveArg)

(***************************************************************************)
(* The ticker text of a session: start, edit, add_ticker, script run       *)
(* (app.py).  Writes to tickers.json succeed here; SpecStore covers a      *)
(* write that fails.                                                       *)
(***************************************************************************)
\* "0700 9988 3690"
DefaultTickerInput ==
    <<"0", "7", "0", "0", " ", "9", "9", "8", "8", " ", "3", "6", "9", "0">>

SeparatorChars == {",", " ", "\n", "\t"}

\* [t.strip() for t in re.split(r'[,\s\n]+', text) if t.strip()]: the
\* maximal runs of characters that are neither commas nor whitespace
RECURSIVE SplitTokens(_, _, _)
SplitTokens(text, i, token) ==
    IF i > Len(text) THEN (IF token = <<>> THEN <<>> ELSE <<token>>)
    ELSE IF text[i] \in SeparatorChars
         THEN (IF token = <<>> THEN <<>> ELSE <<token>>) \o SplitTokens(text, i + 1, <<>>)
         ELSE SplitTokens(text, i + 1, Append(token, text[i]))

Tokens(text) == SplitTokens(text, 1, <<>>)

\* " ".join(l)
RECURSIVE JoinSpace(_)
JoinSpace(l) ==
    IF l = <<>> THEN <<>>
    ELSE IF Len(l) = 1 THEN l[1]
    ELSE l[1] \o <<" ">> \o JoinSpace(Tail(l))

\* code in current
Contains(current, code) ==
    \E i \in 0..Len(current) :
        i + Len(code) <= Len(current) /\ SubSeq(current, i + 1, i + Len(code)) = code

SessionAlphabet == {"7", "0", " ", ","}

RECURSIVE TextsOver(_, _)
TextsOver(A, n) ==
    IF n = 0 THEN {<<>>}
    ELSE TextsOver(A, n - 1) \cup
         {Append(s, c) : s \in {x \in TextsOver(A, n - 1) : Len(x) = n - 1}, c \in A}

\* what the user can type into the text area
EditedTexts == TextsOver(SessionAlphabet, MaxTextLen)

\* the codes of the search results: non-empty digit strings
SearchCodes == TextsOver({"0", "7"}, MaxCodeLen) \ {<<>>}

\* lines 22-28: the ticker text of a new session
InitialTickerInput(f) ==
    LET saved_tickers == load_tickers_from_json(f)
    IN  IF saved_tickers.kind = "list" /\ saved_tickers.items # <<>>
        THEN JoinSpace(saved_tickers.items)
        ELSE DefaultTickerInput

Mutant_SaveParsed_saves_empty(text, f) ==
    save_tickers_to_json(Tokens(text), f, "written").file

\* lines 87-96: the file after the sidebar parsed the text
SaveParsed(text, f) ==
    LET parsed == Tokens(text)
    IN  IF parsed # <<>> THEN save_tickers_to_json(parsed, f, "written").file ELSE f

Mutant_add_ticker_exact_match(code, current, marked, f) ==
    IF \A i \in 1..Len(Tokens(current)) : Tokens(current)[i] # code
    THEN LET new_input == current \o <<" ">> \o code
         IN  [ticker_input |-> new_input,
              new_ticker |-> code,
              file |-> save_tickers_to_json(Tokens(new_input), f, "written").file]
    ELSE [ticker_input |-> current, new_ticker |-> marked, file |-> f]

\* add_ticker(code), with the session's ticker text, its new_ticker and the
\* file before the call
add_ticker(code, current, marked, f) ==
    IF ~Contains(current, code)
    THEN LET new_input == current \o <<" ">> \o code
         IN  [ticker_input |-> new_input,
              new_ticker |-> code,
              file |-> save_tickers_to_json(Tokens(new_input), f, "written").file]
    ELSE [ticker_input |-> current, new_ticker |-> marked, file |-> f]

SessionFiles ==
    {Missing,
     FileText(Dump(<<<<"7">>>>)),
     FileText(Dump(<<>>)),
     FileText(<<"{">>)}

IdleSession ==
    /\ ticker_input = <<>>
    /\ new_ticker = <<>>
    /\ clicked = <<>>
    /\ tickersFile = None
    /\ pcSession = "idle"

\* a new session: ticker_input and new_ticker are not in st.session_state
InitSession ==
    /\ component = "session"
    /\ ticker_input = <<>>
    /\ new_ticker = <<>>
    /\ clicked = <<>>
    /\ tickersFile \in SessionFiles
    /\ pcSession = "new"

\* the first script run of the session
StartSession ==
    /\ component = "session"
    /\ pcSession = "new"
    /\ ticker_input' = InitialTickerInput(tickersFile)
    /\ tickersFile' = SaveParsed(ticker_input', tickersFile)
    /\ pcSession' = "shown"
    /\ UNCHANGED <<component, new_ticker, clicked>>

\* the user edits the text area: the widget stores the text and the
\* script runs
EditTickers ==
    /\ component = "session"
    /\ pcSession = "shown"
    /\ \E text \in EditedTexts :
          /\ ticker_input' = text
          /\ tickersFile' = SaveParsed(text, tickersFile)
    /\ clicked' = <<>>
    /\ UNCHANGED <<component, new_ticker, pcSession>>

\* the user clicks the add button of a search result: add_ticker(code),
\* then st.rerun()
AddTicker ==
    /\ component = "session"
    /\ pcSession = "shown"
    /\ \E code \in SearchCodes :
          LET after == add_ticker(code, ticker_input, new_ticker, tickersFile)
          IN  /\ Len(after.ticker_input) <= MaxInputLen
              /\ clicked' = code
              /\ ticker_input' = after.ticker_input
              /\ new_ticker' = after.new_ticker
              /\ tickersFile' = after.file
    /\ pcSession' = "rerun"
    /\ UNCHANGED component

\* the script run that st.rerun() starts
RunScript ==
    /\ component = "session"
    /\ pcSession = "rerun"
    /\ tickersFile' = SaveParsed(ticker_input, tickersFile)
    /\ pcSession' = "shown"
    /\ UNCHANGED <<component, ticker_input, new_ticker, clicked>>

(***************************************************************************)
(* Claims about the session                                                *)
(***************************************************************************)
Persisted == load_tickers_from_json(tickersFile)

ILoc(df, name, k) ==
    LET v == df.data[name][Len(df.index) + 1 - k]
    IN  IF name \in Range(OHLCVColumns) THEN Float(v) ELSE v

\* the frames get_stock_data hands to the tab: None or at least one row
PrimaryFrames ==
    {None} \cup {OHLCV(n, shape, base) : n \in 1..MaxBars, shape \in Shapes, base \in Bases}

RealtimeFrames == {None, OHLCV(MaxFetchRows, "up", 100)}

\* get_stock_info: {} or a mapping with previousClose
Infos == {EmptyDict, [previousClose |-> Float(99)]}

NoData(df) == df = None \/ Empty(df)

\* lines 287-295: the values the narrative reads from the last rows
SnapshotOf(df) ==
    [last_close |-> ILoc(df, "Close", 1),
     prev_close |-> ILoc(df, "Close", 2),
     sma20 |-> ILoc(df, "SMA_20", 1),
     sma50 |-> ILoc(df, "SMA_50", 1),
     rsi |-> ILoc(df, "RSI", 1),
     macd |-> ILoc(df, "MACD", 1),
     macd_signal |-> ILoc(df, "MACD_Signal", 1),
     bb_high |-> ILoc(df, "BB_High", 1),
     bb_low |-> ILoc(df, "BB_Low", 1)]

\* lines 215-356 for a frame df with rows: prev_close is bound only when
\* the realtime frame has rows (line 228), and line 288 reads the row
\* before the last one.
AnalyzeFrame(df, realtime_price_data, quote) ==
    LET prev_price == IF Len(df.index) > 1 THEN ILoc(df, "Close", 2)
                      ELSE Float(df.data["Open"][1])
    IN  IF NoData(realtime_price_data) THEN Raised("NameError: prev_close, line 230")
        ELSE LET current_price == ILoc(realtime_price_data, "Close", 1)
                 prev_close == Get(quote, "previousClose", prev_price)
                 change == Sub(current_price, prev_close)
                 augmented == calculate_technical_indicators(df)
             IN  IF Len(augmented.index) < 2 THEN Raised("IndexError: iloc[-2], line 288")
                 ELSE Returned([shown |-> "analysis",
                                current_price |-> current_price,
                                change |-> change,
                                pct_change |-> PercentOf(change, prev_close),
                                df |-> augmented,
                                narrative |-> Narrative(SnapshotOf(augmented))])

\* lines 211-452
AnalyzeSelected(df, realtime_price_data, quote) ==
    IF NoData(df) THEN Returned([shown |-> "no data"])
    ELSE AnalyzeFrame(df, realtime_price_data, quote)

IdleAnalysis ==
    /\ primary = None
    /\ realtime = None
    /\ info = None
    /\ analysis = None
    /\ pcAnalysis = "idle"

InitAnalysis ==
    /\ component = "analysis"
    /\ primary \in PrimaryFrames
    /\ realtime \in RealtimeFrames
    /\ info \in Infos
    /\ analysis = None
    /\ pcAnalysis = "call"

AnalyzeTicker ==
    /\ component = "analysis"
    /\ pcAnalysis = "call"
    /\ analysis' = AnalyzeSelected(primary, realtime, info)
    /\ pcAnalysis' = "done"
    /\ UNCHANGED <<component, primary, realtime, info>>

(***************************************************************************)
(* Claims about the single-stock tab                                       *)
(***************************************************************************)
Completed ==
    /\ analysis.kind = "returned"
    /\ analysis.value.shown = "analysis"

\* C18 as stated: when the primary fetch returns a non-empty series and the
\* realtime fetch returns no data, the analysis completes without raising,
\* with the price change computed from the primary series (last close
\* against the previous price) and the indicators and narrative produced.
C18_Original ==
    (pcAnalysis = "done" /\ primary # None /\ realtime = None) =>
        /\ Completed
        /\ LET n == Len(primary.index)
               last == primary.data["Close"][n]
               before == IF n > 1 THEN primary.data["Close"][n - 1]
                         ELSE primary.data["Open"][1]
           IN  analysis.value.change = Cell((last - before) * PriceScale)
        /\ analysis.value.narrative.recommendation
               \in {"bullish", "cautious/wait", "neutral/hold"}

\* C19 as stated: when both fetches return data the analysis completes for
\* a primary series of any length >= 1, one bar included, and yields a
\* trend regime, a band finding, a momentum finding and a recommendation
\* without raising.
C19_Original ==
    (pcAnalysis = "done" /\ primary # None /\ realtime # None) =>
        /\ Completed
        /\ analysis.value.narrative.ma_status
               \in {"bullish alignment", "bearish alignment",
                    "short-term rebound", "short-term pullback"}
        /\ analysis.value.narrative.bb_desc.kind \in {"broke above", "broke below", "inside"}
        /\ analysis.value.narrative.rsi_status \in {"overbought", "oversold", "neutral"}
        /\ analysis.value.narrative.recommendation
               \in {"bullish", "cautious/wait", "neutral/hold"}

\* C22: when SMA_50 is undefined in the latest row, as it is for a series
\* of fewer than 50 bars, every comparison against it is false: the trend
\* regime is short-term rebound if close > SMA_20 and short-term pullback
\* otherwise, never an alignment; the score gains nothing from SMA_50; the
\* rating is never bullish.
C22_UndefinedSMA50 ==
    /\ (pcNarr = "done" /\ snapshot.sma50 = NaN) =>
           LET c == snapshot.last_close
               units == {u \in {1, 3, 4} :
                            \/ u = 1 /\ Above(c, snapshot.sma20)
                            \/ u = 3 /\ Above(snapshot.rsi, Cell(40 * PriceScale))
                                     /\ Below(snapshot.rsi, Cell(70 * PriceScale))
                            \/ u = 4 /\ Above(snapshot.macd, snapshot.macd_signal)}
               half == IF Above(c, snapshot.prev_close) THEN 1 ELSE 0
           IN  /\ findings.ma_status =
                      (IF Above(c, snapshot.sma20) THEN "short-term rebound"
                       ELSE "short-term pullback")
               /\ 2 * findings.score = (2 * Cardinality(units) + half) * PriceScale
               /\ findings.recommendation # "bullish"
    /\ (pcAnalysis = "done" /\ Completed /\ Len(primary.index) < SMA50Window) =>
           LET shown == analysis.value
               n == Len(primary.index)
               sma20 == shown.df.data["SMA_20"][n]
               rising == sma20 # NaN /\ primary.data["Close"][n] * PriceScale > sma20[1]
           IN  /\ shown.df.data["SMA_50"][n] = NaN
               /\ shown.narrative.ma_status =
                      (IF rising THEN "short-term rebound" ELSE "short-term pullback")
               /\ shown.narrative.score <= 3 * PriceScale + PriceScale \div 2
               /\ shown.narrative.recommendation # "bullish"

\* a series of 49 rising bars: SMA_20 is defined and below the close,
\* SMA_50 is not defined, and the regime is short-term rebound
C22_Witness ==
    /\ pcAnalysis = "done"
    /\ Completed
    /\ Len(primary.index) = SMA50Window - 1
    /\ analysis.value.df.data["SMA_50"][Len(primary.index)] = NaN
    /\ analysis.value.df.data["SMA_20"][Len(primary.index)] # NaN
    /\ analysis.value.narrative.ma_status = "short-term rebound"

(***************************************************************************)
(* Specifications                                                          *)
(***************************************************************************)
IdleTicker ==
    /\ ticker = <<>>
    /\ formatted = <<>>
    /\ reformatted = <<>>
    /\ pcTicker = "idle"

OthersTicker ==
    <<fetchVars, indVars, namesVars, newsVars, narrVars, storeVars, sessionVars,
      analysisVars>>

InitOfTicker ==
    /\ InitTicker
    /\ IdleFetch
    /\ IdleInd
    /\ IdleNames
    /\ IdleNews
    /\ IdleNarr
    /\ IdleStore
    /\ IdleSession
    /\ IdleAnalysis

NextTicker ==
    \/ Normalize /\ UNCHANGED OthersTicker
    \/ Renormalize /\ UNCHANGED OthersTicker

SpecTicker == InitOfTicker /\ [][NextTicker]_vars

OthersFetch ==
    <<tickerVars, indVars, namesVars, newsVars, narrVars, storeVars, sessionVars,
      analysisVars>>

InitOfFetch ==
    /\ InitFetch
    /\ IdleTicker
    /\ IdleInd
    /\ IdleNames
    /\ IdleNews
    /\ IdleNarr
    /\ IdleStore
    /\ IdleSession
    /\ IdleAnalysis

NextFetch == GetStockData /\ UNCHANGED OthersFetch

SpecFetch == InitOfFetch /\ [][NextFetch]_vars

OthersInd ==
    <<tickerVars, fetchVars, namesVars, newsVars, narrVars, storeVars, sessionVars,
      analysisVars>>

InitOfInd ==
    /\ InitInd
    /\ IdleTicker
    /\ IdleFetch
    /\ IdleNames
    /\ IdleNews
    /\ IdleNarr
    /\ IdleStore
    /\ IdleSession
    /\ IdleAnalysis

NextInd == CalculateTechnicalIndicators /\ UNCHANGED OthersInd

SpecIndicators == InitOfInd /\ [][NextInd]_vars

OthersNames ==
    <<tickerVars, fetchVars, indVars, newsVars, narrVars, storeVars, sessionVars,
      analysisVars>>

InitOfNames ==
    /\ InitNames
    /\ IdleTicker
    /\ IdleFetch
    /\ IdleInd
    /\ IdleNews
    /\ IdleNarr
    /\ IdleStore
    /\ IdleSession
    /\ IdleAnalysis

NextNames ==
    \/ PrepareCodes /\ UNCHANGED OthersNames
    \/ FetchChunk /\ UNCHANGED OthersNames
    \/ ReturnNames /\ UNCHANGED OthersNames

SpecNames == InitOfNames /\ [][NextNames]_vars

OthersNews ==
    <<tickerVars, fetchVars, indVars, namesVars, narrVars, storeVars, sessionVars,
      analysisVars>>

InitOfNews ==
    /\ InitNews
    /\ IdleTicker
    /\ IdleFetch
    /\ IdleInd
    /\ IdleNames
    /\ IdleNarr
    /\ IdleStore
    /\ IdleSession
    /\ IdleAnalysis

NextNews == GetNews /\ UNCHANGED OthersNews

SpecNews == InitOfNews /\ [][NextNews]_vars

OthersNarr ==
    <<tickerVars, fetchVars, indVars, namesVars, newsVars, storeVars, sessionVars,
      analysisVars>>

InitOfNarr ==
    /\ InitNarr
    /\ IdleTicker
    /\ IdleFetch
    /\ IdleInd
    /\ IdleNames
    /\ IdleNews
    /\ IdleStore
    /\ IdleSession
    /\ IdleAnalysis

NextNarr == Narrate /\ UNCHANGED OthersNarr

SpecNarrative == InitOfNarr /\ [][NextNarr]_vars

OthersStore ==
    <<tickerVars, fetchVars, indVars, namesVars, newsVars, narrVars, sessionVars,
      analysisVars>>

InitOfStore ==
    /\ InitStore
    /\ IdleTicker
    /\ IdleFetch
    /\ IdleInd
    /\ IdleNames
    /\ IdleNews
    /\ IdleNarr
    /\ IdleSession
    /\ IdleAnalysis

NextStore ==
    \/ SaveTickers /\ UNCHANGED OthersStore
    \/ LoadTickers /\ UNCHANGED OthersStore

SpecStore == InitOfStore /\ [][NextStore]_vars

OthersSession ==
    <<tickerVars, fetchVars, indVars, namesVars, newsVars, narrVars, storeVars,
      analysisVars>>

InitOfSession ==
    /\ InitSession
    /\ IdleTicker
    /\ IdleFetch
    /\ IdleInd
    /\ IdleNames
    /\ IdleNews
    /\ IdleNarr
    /\ IdleStore
    /\ IdleAnalysis

NextSession ==
    \/ StartSession /\ UNCHANGED OthersSession
    \/ EditTickers /\ UNCHANGED OthersSession
    \/ AddTicker /\ UNCHANGED OthersSession
    \/ RunScript /\ UNCHANGED OthersSession

SpecSession == InitOfSession /\ [][NextSession]_vars

OthersAnalysis ==
    <<tickerVars, fetchVars, indVars, namesVars, newsVars, narrVars, storeVars,
      sessionVars>>

InitOfAnalysis ==
    /\ InitAnalysis
    /\ IdleTicker
    /\ IdleFetch
    /\ IdleInd
    /\ IdleNames
    /\ IdleNews
    /\ IdleNarr
    /\ IdleStore
    /\ IdleSession

NextAnalysis == AnalyzeTicker /\ UNCHANGED OthersAnalysis

SpecAnalysis == InitOfAnalysis /\ [][NextAnalysis]_vars

Init ==
    InitOfTicker \/ InitOfFetch \/ InitOfInd \/ InitOfNames \/ InitOfNews \/
    InitOfNarr \/ InitOfStore \/ InitOfSession \/ InitOfAnalysis

Next ==
    NextTicker \/ NextFetch \/ NextInd \/ NextNames \/ NextNews \/ NextNarr \/
    NextStore \/ NextSession \/ NextAnalysis

Spec == Init /\ [][Next]_vars

====
